---- MODULE Spec2Model ----
(***************************************************************************)
(* poznote-cli.py: one invocation of the command line client, as a         *)
(* sequential state machine.  Strings are sequences of one-character       *)
(* strings; Python's None is the one-element sequence None, which no       *)
(* string over the alphabets below equals.                                 *)
(***************************************************************************)
EXTENDS Integers, Sequences, FiniteSets

\* ------------------------------------------------------------- bounds
MaxUrlLen == 2
MaxTagLen == 2
MaxInputLen == 2
MaxNotes == 2
MaxId == 2

\* ------------------------------------------------------ values, strings
None == <<"None">>
NoneId == -1

StringsUpTo(alphabet, n) == UNION {[1..k -> alphabet] : k \in 0..n}

\* Python truthiness of an optional string: None and "" are falsy.
Truthy(s) == s # None /\ s # <<>>
\* Python truthiness of an optional numeric id: None and 0 are falsy.
TruthyId(i) == i # NoneId /\ i # 0

IsSpace(c) == c = " "

RECURSIVE LStrip(_)
LStrip(s) == IF s # <<>> /\ IsSpace(Head(s)) THEN LStrip(Tail(s)) ELSE s

RECURSIVE RStripSpace(_)
RStripSpace(s) ==
    IF s # <<>> /\ IsSpace(s[Len(s)]) THEN RStripSpace(SubSeq(s, 1, Len(s) - 1)) ELSE s

\* str.strip()
StripIdentity(s) == s
Strip(s) == RStripSpace(LStrip(s))

\* url.rstrip('/')
RECURSIVE RStripSlash(_)
RStripSlash(s) ==
    IF s # <<>> /\ s[Len(s)] = "/" THEN RStripSlash(SubSeq(s, 1, Len(s) - 1)) ELSE s

\* str.lower() on the characters the toggle values use
LowerChar(c) == IF c = "T" THEN "t" ELSE c
Lower(s) == [i \in DOMAIN s |-> LowerChar(s[i])]

\* tags.split(',')
RECURSIVE Split(_)
Split(s) ==
    IF \A i \in DOMAIN s : s[i] # ","
    THEN <<s>>
    ELSE LET i == CHOOSE k \in DOMAIN s : s[k] = "," /\ \A j \in 1..(k - 1) : s[j] # ","
         IN  <<SubSeq(s, 1, i - 1)>> \o Split(SubSeq(s, i + 1, Len(s)))

\* ----------------------------------------------------------- the inputs
TrueStr == <<"t", "r", "u", "e">>
AdvValues == {None, TrueStr, <<"T", "r", "u", "e">>, <<"n", "o">>}
UrlValues == {None} \cup StringsUpTo({"h", "/"}, MaxUrlLen)
CredValues == {None, <<>>, <<"u">>}
TagValues == {None} \cup StringsUpTo({"a", ",", " "}, MaxTagLen)
InputValues == StringsUpTo({"x", " "}, MaxInputLen)
IdArgValues == {None, <<>>, <<"1">>}
QueryValues == {None, <<>>, <<"q">>}
\* ids the server hands out
NoteIds == 1..MaxId
NoteLists == UNION {[1..k -> [id : {NoneId} \cup NoteIds]] : k \in 0..MaxNotes}

NoArgs ==
    [last |-> FALSE, search |-> None, delete |-> None, update |-> None,
     tags |-> None, clipboard |-> FALSE, burn |-> FALSE,
     d |-> FALSE, u |-> FALSE, debug |-> FALSE]

NoConfig == [base_url |-> None, user |-> None, password |-> None, adv_feat |-> FALSE]

VARIABLES
    environ,      \* POZNOTE_URL, POZNOTE_USER, POZNOTE_PASS, POZNOTE_ADVANCED_FEATURES
    argv,         \* the command line the process was started with
    stdinIsTty,   \* sys.stdin.isatty()
    pc,           \* position in the script
    config,       \* what the last get_config() returned
    args,         \* parser.parse_args()
    handler,      \* the function __main__ called
    raw_input,    \* what stdin or the clipboard tool yielded, before strip()
    input_data,   \* input_data of update_note / post_to_poznote
    stdinRead,    \* sys.stdin.read() has consumed standard input
    notes,        \* data.get("notes", []) of the collection GET
    note_id,      \* data.get("note", {}).get("id") of the POST
    confirmed,    \* the Burn confirmation line has been read
    http,         \* every requests.request(...) call, in order, with its outcome
    copied,       \* the note id of the URL handed to copy_to_clipboard, None before
    out,          \* the lines printed
    exitCode      \* the process's exit status, -1 while it runs

vars == <<environ, argv, stdinIsTty, pc, config, args, handler, raw_input, input_data,
          stdinRead, notes, note_id, confirmed, http, copied, out, exitCode>>

inputs == <<environ, argv, stdinIsTty>>

\* ----------------------------------------------------------- get_config
AdvFeat(e) == Lower(IF e.adv = None THEN <<"f", "a", "l", "s", "e">> ELSE e.adv) = TrueStr

CredentialsPresent(e) == Truthy(e.url) /\ Truthy(e.user) /\ Truthy(e.password)

GetConfig(e) ==
    [base_url |-> RStripSlash(e.url), user |-> e.user, password |-> e.password,
     adv_feat |-> AdvFeat(e)]

\* the process ends with status code, after printing lines
Exit(code, lines) ==
    /\ pc' = "exited"
    /\ exitCode' = code
    /\ out' = out \o lines

InitState ==
    /\ pc = "start"
    /\ config = NoConfig
    /\ args = NoArgs
    /\ handler = "none"
    /\ raw_input = None
    /\ input_data = None
    /\ stdinRead = FALSE
    /\ notes = <<>>
    /\ note_id = NoneId
    /\ confirmed = FALSE
    /\ http = <<>>
    /\ copied = None
    /\ out = <<>>
    /\ exitCode = -1

\* __main__, line 235
MainGetConfig ==
    /\ pc = "start"
    /\ IF ~CredentialsPresent(environ)
       THEN /\ Exit(12, <<"Error: Credentials missing">>)
            /\ UNCHANGED config
       ELSE /\ config' = GetConfig(environ)
            /\ pc' = "parse"
            /\ UNCHANGED <<out, exitCode>>
    /\ UNCHANGED <<inputs, args, handler, raw_input, input_data, stdinRead, notes,
                   note_id, confirmed, http, copied>>

\* __main__, lines 243-261
ParseArgs ==
    /\ pc = "parse"
    /\ args' = argv
    /\ pc' = "guard"
    /\ UNCHANGED <<inputs, config, handler, raw_input, input_data, stdinRead, notes,
                   note_id, confirmed, http, copied, out, exitCode>>

\* any([args.last, args.search, args.delete, args.update]) and not adv_feat
GuardNeverRejects(a, adv) == FALSE
GuardRejects(a, adv) ==
    /\ a.last \/ Truthy(a.search) \/ Truthy(a.delete) \/ Truthy(a.update)
    /\ ~adv

\* __main__, lines 264-266
Guard ==
    /\ pc = "guard"
    /\ IF GuardRejects(args, config.adv_feat)
       THEN Exit(12, <<"Error: Advanced features are disabled">>)
       ELSE /\ pc' = "dispatch"
            /\ UNCHANGED <<out, exitCode>>
    /\ UNCHANGED <<inputs, config, args, handler, raw_input, input_data, stdinRead,
                   notes, note_id, confirmed, http, copied>>

\* the if / elif chain of __main__
SelectHandler(a) ==
    IF a.last THEN "list"
    ELSE IF Truthy(a.search) THEN "search"
    ELSE IF Truthy(a.delete) THEN "delete"
    ELSE IF Truthy(a.update) THEN "update"
    ELSE "post"

\* __main__, lines 268-284
Dispatch ==
    /\ pc = "dispatch"
    /\ handler' = SelectHandler(args)
    /\ pc' = SelectHandler(args)
    /\ UNCHANGED <<inputs, config, args, raw_input, input_data, stdinRead, notes,
                   note_id, confirmed, http, copied, out, exitCode>>

\* -------------------------------------------------------- poznote_request
Digits == <<"0", "1", "2", "3", "4", "5", "6", "7", "8", "9">>
\* f"{note_id}" of a numeric id (or of None)
IdStr(i) == IF i = NoneId THEN None ELSE <<Digits[i + 1]>>

Req(method, target) ==
    [method |-> method, target |-> target, search |-> None, content |-> None,
     hasTags |-> FALSE, tags |-> <<>>, ok |-> TRUE]

\* requests.request + raise_for_status: it raises a RequestException (timeout,
\* network error, non-2xx status) or returns; a URL with no scheme and host
\* always raises.  The get_config() of line 105 reads the environment that
\* MainGetConfig accepted, which nothing changes, and returns the same
\* Configuration.
RequestOutcomes(cfg) == IF cfg.base_url = <<>> THEN {FALSE} ELSE BOOLEAN

\* the except clause of poznote_request is taken
RequestFailedSwallowed(ok) == FALSE
RequestFailed(ok) == ~ok

DebugEcho(a) == IF a.debug THEN <<"--- DEBUG: CURL COMMAND ---">> ELSE <<>>

ApiError(a) == Exit(13, DebugEcho(a) \o <<"Error: API Request failed">>)

\* -------------------------------------------------------- list_last_note
FirstIdLast(ns) == ns[Len(ns)].id
FirstId(ns) == ns[1].id

\* lines 123-129 (list_last_note) and 146-152 (search_notes): the collection GET
CollectionGet(query, emptyLine) ==
    LET cfg == GetConfig(environ) IN
    \E ok \in RequestOutcomes(cfg), ns \in NoteLists :
       /\ http' = Append(http, [Req("GET", None) EXCEPT !.search = query, !.ok = ok])
       /\ IF RequestFailed(ok)
          THEN /\ ApiError(args)
               /\ UNCHANGED notes
          ELSE /\ notes' = ns
               /\ IF ns = <<>>
                  THEN Exit(0, DebugEcho(args) \o <<emptyLine>>)
                  ELSE /\ pc' = "detail"
                       /\ out' = out \o DebugEcho(args)
                       /\ UNCHANGED exitCode
       /\ UNCHANGED <<inputs, config, args, handler, raw_input, input_data, stdinRead,
                      note_id, confirmed, copied>>

ListLastNote ==
    /\ pc = "list"
    /\ CollectionGet(None, "No notes found in workspace")

SearchNotes ==
    /\ pc = "search"
    /\ CollectionGet(args.search, "No notes found matching")

\* lines 131-142 and 154-165: the detail GET of the first element, and the printout
DetailGet ==
    /\ pc = "detail"
    /\ LET cfg == GetConfig(environ)
           first_id == IdStr(FirstId(notes))
       IN  \E ok \in RequestOutcomes(cfg) :
              /\ http' = Append(http, [Req("GET", first_id) EXCEPT !.ok = ok])
              /\ IF RequestFailed(ok)
                 THEN /\ ApiError(args)
                      /\ UNCHANGED copied
                 ELSE /\ Exit(0, DebugEcho(args) \o <<"note", "URL">>)
                      /\ copied' = first_id
    /\ UNCHANGED <<inputs, config, args, handler, raw_input, input_data, stdinRead,
                   notes, note_id, confirmed>>

\* ----------------------------------------------------------- delete_note
\* lines 168-171, called from __main__ with args.delete
DeleteNote ==
    /\ pc = "delete"
    /\ LET cfg == GetConfig(environ) IN
       \E ok \in RequestOutcomes(cfg) :
          /\ http' = Append(http, [Req("DELETE", args.delete) EXCEPT !.ok = ok])
          /\ IF RequestFailed(ok)
             THEN ApiError(args)
             ELSE Exit(0, DebugEcho(args) \o <<"Success: Note deleted.">>)
    /\ UNCHANGED <<inputs, config, args, handler, raw_input, input_data, stdinRead,
                   notes, note_id, confirmed, copied>>

\* ----------------------------------------------------------- update_note
\* sys.stdin.isatty() as the handlers test it
NoPipedInputIgnored(tty) == FALSE
NoPipedInput(tty) == tty

\* lines 175-180
UpdateRead ==
    /\ pc = "update"
    /\ IF NoPipedInput(stdinIsTty)
       THEN /\ Exit(11, <<"Error: No piped input detected for update.">>)
            /\ UNCHANGED <<raw_input, input_data, stdinRead>>
       ELSE \E raw \in InputValues :
              /\ raw_input' = raw
              /\ input_data' = Strip(raw)
              /\ stdinRead' = TRUE
              /\ IF ~Truthy(Strip(raw))
                 THEN Exit(0, <<>>)
                 ELSE /\ pc' = "update_patch"
                      /\ UNCHANGED <<out, exitCode>>
    /\ UNCHANGED <<inputs, config, args, handler, notes, note_id, confirmed, http, copied>>

\* lines 182-184
UpdatePatch ==
    /\ pc = "update_patch"
    /\ LET cfg == GetConfig(environ) IN
       \E ok \in RequestOutcomes(cfg) :
          /\ http' = Append(http, [Req("PATCH", args.update) EXCEPT
                                      !.content = input_data, !.ok = ok])
          /\ IF RequestFailed(ok)
             THEN ApiError(args)
             ELSE Exit(0, DebugEcho(args) \o <<"Success: Note updated via PATCH.">>)
    /\ UNCHANGED <<inputs, config, args, handler, raw_input, input_data, stdinRead,
                   notes, note_id, confirmed, copied>>

\* ------------------------------------------------------- post_to_poznote
\* get_clipboard_text(): the tool's output, stripped, or None when no tool is
\* installed or the tool fails
ClipboardTexts == {None} \cup InputValues

\* lines 188-198
PostRead ==
    /\ pc = "post"
    /\ IF args.clipboard
       THEN \E clip \in ClipboardTexts :
              LET text == IF clip = None THEN None ELSE Strip(clip) IN
              /\ raw_input' = clip
              /\ input_data' = text
              /\ UNCHANGED stdinRead
              /\ IF ~Truthy(text)
                 THEN Exit(0, <<>>)
                 ELSE /\ pc' = "post_request"
                      /\ UNCHANGED <<out, exitCode>>
       ELSE IF NoPipedInput(stdinIsTty)
       THEN /\ Exit(11, <<"Error: No piped input. Use -c to post from clipboard.">>)
            /\ UNCHANGED <<raw_input, input_data, stdinRead>>
       ELSE \E raw \in InputValues :
              /\ raw_input' = raw
              /\ input_data' = Strip(raw)
              /\ stdinRead' = TRUE
              /\ IF ~Truthy(Strip(raw))
                 THEN Exit(0, <<>>)
                 ELSE /\ pc' = "post_request"
                      /\ UNCHANGED <<out, exitCode>>
    /\ UNCHANGED <<inputs, config, args, handler, notes, note_id, confirmed, http, copied>>

\* lines 200-206: the payload
PostPayload(a, content) ==
    [Req("POST", None) EXCEPT
        !.content = content,
        !.hasTags = Truthy(a.tags),
        !.tags = IF Truthy(a.tags) THEN Split(a.tags) ELSE <<>>]

\* lines 215-219: the hint lines
Hints(a, id) ==
    (IF a.d /\ TruthyId(id) THEN <<"To delete this note run">> ELSE <<>>)
    \o (IF a.u /\ TruthyId(id) THEN <<"To update this note run">> ELSE <<>>)

\* lines 208-224
PostRequest ==
    /\ pc = "post_request"
    /\ LET cfg == GetConfig(environ) IN
       \E ok \in RequestOutcomes(cfg), id \in {NoneId} \cup NoteIds :
          /\ http' = Append(http, [PostPayload(args, input_data) EXCEPT !.ok = ok])
          /\ IF RequestFailed(ok)
             THEN /\ ApiError(args)
                  /\ UNCHANGED <<note_id, copied>>
             ELSE /\ note_id' = id
                  /\ copied' = IdStr(id)
                  /\ IF args.burn /\ TruthyId(id)
                     THEN /\ pc' = "burn_confirm"
                          /\ out' = out \o DebugEcho(args) \o <<"Success: URL">>
                                        \o Hints(args, id) \o <<"BURN MODE">>
                          /\ UNCHANGED exitCode
                     ELSE Exit(0, DebugEcho(args) \o <<"Success: URL">> \o Hints(args, id))
    /\ UNCHANGED <<inputs, config, args, handler, raw_input, input_data, stdinRead,
                   notes, confirmed>>

\* lines 225-230: the line is read from /dev/tty, or by input() from standard
\* input when the device cannot be opened; input() raises EOFError at end of
\* input, which nothing catches (exit status 1), and standard input is at its
\* end once sys.stdin.read() has consumed it.
BurnConfirm ==
    /\ pc = "burn_confirm"
    /\ \E ttyOpens \in BOOLEAN, eof \in (IF stdinRead THEN {TRUE} ELSE BOOLEAN) :
          IF ttyOpens \/ ~eof
          THEN /\ confirmed' = TRUE
               /\ pc' = "burn_delete"
               /\ out' = out \o <<"Press [Enter] to delete...">>
               /\ UNCHANGED exitCode
          ELSE /\ Exit(1, <<"Press [Enter] to delete...", "EOFError">>)
               /\ UNCHANGED confirmed
    /\ UNCHANGED <<inputs, config, args, handler, raw_input, input_data, stdinRead,
                   notes, note_id, http, copied>>

\* line 231: delete_note(note_id)
BurnDelete ==
    /\ pc = "burn_delete"
    /\ LET cfg == GetConfig(environ) IN
       \E ok \in RequestOutcomes(cfg) :
          /\ http' = Append(http, [Req("DELETE", IdStr(note_id)) EXCEPT !.ok = ok])
          /\ IF RequestFailed(ok)
             THEN ApiError(args)
             ELSE Exit(0, DebugEcho(args) \o <<"Success: Note deleted.">>)
    /\ UNCHANGED <<inputs, config, args, handler, raw_input, input_data, stdinRead,
                   notes, note_id, confirmed, copied>>

\* ------------------------------------------------------ specifications
\* The whole client: every handler, an absent, a usable and a slash-only URL,
\* every value of the feature toggle, every combination of the
\* action-selecting flags.
EnvironCli ==
    [url : {None, <<"h", "/">>, <<"/">>}, user : {<<"u">>}, password : {<<"u">>}, adv : AdvValues]

ArgvCli ==
    [last : BOOLEAN, search : QueryValues, delete : IdArgValues, update : IdArgValues,
     tags : {None, <<"a", ",", "a">>}, clipboard : BOOLEAN, burn : BOOLEAN,
     d : {FALSE}, u : {FALSE}, debug : {FALSE}]

Init ==
    /\ environ \in EnvironCli
    /\ argv \in ArgvCli
    /\ stdinIsTty \in BOOLEAN
    /\ InitState

Next ==
    \/ MainGetConfig
    \/ ParseArgs
    \/ Guard
    \/ Dispatch
    \/ ListLastNote
    \/ SearchNotes
    \/ DetailGet
    \/ DeleteNote
    \/ UpdateRead
    \/ UpdatePatch
    \/ PostRead
    \/ PostRequest
    \/ BurnConfirm
    \/ BurnDelete

Spec == Init /\ [][Next]_vars

\* Post alone: every -t value up to MaxTagLen, every modifier flag.
EnvironPost ==
    [url : {<<"h">>, <<"h", "/">>}, user : {<<"u">>}, password : {<<"u">>}, adv : {None, TrueStr}]

ArgvPost ==
    [last : {FALSE}, search : {None}, delete : {None}, update : {None},
     tags : TagValues, clipboard : BOOLEAN, burn : BOOLEAN,
     d : BOOLEAN, u : BOOLEAN, debug : BOOLEAN]

InitPost ==
    /\ environ \in EnvironPost
    /\ argv \in ArgvPost
    /\ stdinIsTty \in BOOLEAN
    /\ InitState

NextPost ==
    \/ MainGetConfig
    \/ ParseArgs
    \/ Guard
    \/ Dispatch
    \/ PostRead
    \/ PostRequest
    \/ BurnConfirm
    \/ BurnDelete

SpecPost == InitPost /\ [][NextPost]_vars

\* get_config alone: every URL up to MaxUrlLen, every credential, every toggle.
EnvironConfig ==
    [url : UrlValues, user : CredValues, password : CredValues, adv : AdvValues]

InitConfig ==
    /\ environ \in EnvironConfig
    /\ argv = NoArgs
    /\ stdinIsTty = FALSE
    /\ InitState

NextConfig == MainGetConfig

SpecConfig == InitConfig /\ [][NextConfig]_vars

\* ------------------------------------------------------------ properties
\* a gated flag is on the command line, whatever its value
GatedFlagGiven(a) == a.last \/ a.search # None \/ a.delete # None \/ a.update # None

\* the highest-priority action among the flags on the command line
GivenHandler(a) ==
    IF a.last THEN "list"
    ELSE IF a.search # None THEN "search"
    ELSE IF a.delete # None THEN "delete"
    ELSE IF a.update # None THEN "update"
    ELSE "post"

Requests(method) == {i \in DOMAIN http : http[i].method = method}

AllSpace(s) == \A i \in DOMAIN s : s[i] = " "

\* C1: an invocation that carries a gated flag (-D, -U, -L, -s), whatever its
\* argument, while advanced features are disabled issues no HTTP request and
\* ends with exit code 12.
C1_GatedFlagRejected ==
    (GatedFlagGiven(argv) /\ ~AdvFeat(environ))
        => (http = <<>> /\ (pc = "exited" => exitCode = 12))

\* C2: with advanced features enabled, the handler dispatched is the
\* highest-priority one among the flags given (last > search > delete >
\* update), and Post exactly when none of the four is given.
C2_DispatchByPriority ==
    (AdvFeat(environ) /\ handler # "none") => handler = GivenHandler(argv)

\* C3: in Burn mode a DELETE is only issued after the confirmation line was
\* read and only for the id the POST returned, never twice, and once the
\* invocation has ended after a successful Post that returned an id there is
\* exactly one.
C3_BurnDeletesOnce ==
    (handler = "post" /\ argv.burn) =>
        /\ \A i \in Requests("DELETE") : confirmed /\ http[i].target = IdStr(note_id)
        /\ Cardinality(Requests("DELETE")) <= 1
        /\ (pc = "exited" /\ note_id # NoneId) => Cardinality(Requests("DELETE")) = 1

\* C4: when the handler needs piped input (Update, or Post without -c) and
\* standard input is a terminal, nothing is read, no HTTP request is issued and
\* the process ends with exit code 11.
C4_TerminalExits11 ==
    ((handler = "update" \/ (handler = "post" /\ ~args.clipboard)) /\ stdinIsTty)
        => /\ ~stdinRead
           /\ raw_input = None
           /\ http = <<>>
           /\ pc \notin {"update", "post"} => (pc = "exited" /\ exitCode = 11)

C4_Witness == handler = "update" /\ stdinIsTty /\ pc = "exited" /\ exitCode = 11

\* the handler has obtained its content (from standard input or the clipboard)
ContentRead ==
    \/ handler \in {"post", "update"} /\ stdinRead
    \/ handler = "post" /\ args.clipboard /\ pc # "post"

\* C5: Post or Update whose content is empty or whitespace only (or, with -c, a
\* clipboard read that yields nothing) issues no HTTP request and exits 0.
C5_EmptyContentNoOp ==
    (ContentRead /\ (raw_input = None \/ AllSpace(raw_input)))
        => (pc = "exited" /\ exitCode = 0 /\ http = <<>>)

C5_Witness ==
    handler = "update" /\ stdinRead /\ raw_input = <<" ", " ">> /\ exitCode = 0

\* C6: after a successful collection GET of List latest or Search, an empty
\* list prints the "no notes found" line, issues no second request and exits 0;
\* a non-empty list leads to exactly one detail GET, for the first element's id.
C6_FirstElementDetail ==
    (handler \in {"list", "search"} /\ http # <<>> /\ http[1].ok) =>
        IF notes = <<>>
        THEN /\ Len(http) = 1
             /\ pc = "exited" /\ exitCode = 0
             /\ \E i \in DOMAIN out :
                   out[i] \in {"No notes found in workspace", "No notes found matching"}
        ELSE /\ Len(http) <= 2
             /\ pc = "exited" => Len(http) = 2
             /\ Len(http) = 2 =>
                   /\ http[2].method = "GET"
                   /\ http[2].target = IdStr(notes[1].id)

C6_Witness ==
    /\ handler = "search" /\ Len(http) = 2 /\ Len(notes) = 2
    /\ notes[1].id # notes[2].id /\ http[2].target = IdStr(notes[1].id)

\* the pieces of a -t value: split on commas, trimmed, empty pieces dropped
TrimmedPieces(s) ==
    LET pieces == Split(s)
        trimmed == [i \in DOMAIN pieces |-> Strip(pieces[i])]
    IN  SelectSeq(trimmed, LAMBDA t : t # <<>>)

\* C7: the tags of the POST payload are the -t value split on commas, each
\* piece trimmed and the empty pieces dropped; no tag sent is empty or has
\* leading or trailing whitespace.
C7_TagsTrimmedNonEmpty ==
    \A i \in Requests("POST") :
        argv.tags # None =>
            /\ http[i].tags = TrimmedPieces(argv.tags)
            /\ \A j \in DOMAIN http[i].tags :
                  LET t == http[i].tags[j] IN t # <<>> /\ t[1] # " " /\ t[Len(t)] # " "

\* C8: loading the configuration ends the process with exit code 12 when the
\* URL, the username or the password is missing or empty; otherwise it
\* succeeds and returns a non-empty serverURL with no trailing "/", a non-empty
\* username and a non-empty password.
C8_ConfigValid ==
    pc # "start" =>
        IF \E v \in {environ.url, environ.user, environ.password} : v = None \/ v = <<>>
        THEN pc = "exited" /\ exitCode = 12
        ELSE /\ config # NoConfig
             /\ config.base_url # <<>>
             /\ config.base_url[Len(config.base_url)] # "/"
             /\ Truthy(config.user)
             /\ Truthy(config.password)

\* C9: a failed HTTP request is the last one of the invocation (no retry, no
\* further request) and the process ends with exit code 13.
C9_FailureTerminal ==
    \A i \in DOMAIN http :
        ~http[i].ok => (i = Len(http) /\ pc = "exited" /\ exitCode = 13)

C9_Witness ==
    /\ Len(http) = 2 /\ http[2].method = "DELETE" /\ ~http[2].ok
    /\ handler = "post" /\ exitCode = 13

\* C10: with advanced features disabled the only requests are the POST that
\* creates the note and, in the Burn flow, one DELETE after it for the id that
\* POST returned; no GET, no PATCH, no DELETE of a user-supplied id.
C10_DisabledOnlyPostAndBurn ==
    ~AdvFeat(environ) =>
        \A i \in DOMAIN http :
            \/ i = 1 /\ http[i].method = "POST" /\ handler = "post"
            \/ /\ i = 2 /\ http[i].method = "DELETE"
               /\ handler = "post" /\ args.burn
               /\ http[1].method = "POST" /\ http[1].ok
               /\ note_id # NoneId /\ http[i].target = IdStr(note_id)

C10_Witness ==
    /\ ~AdvFeat(environ) /\ GatedFlagGiven(argv)
    /\ Len(http) = 2 /\ http[2].method = "DELETE"

====
